---- MODULE Spec2Model ----
(***************************************************************************)
(* State-machine model of src/train.py: train_model (epoch/batch loop,     *)
(* mixed-precision step with conditional scheduler advance, checkpoint     *)
(* save and preload), run_validation and greedy_decode.                    *)
(*                                                                         *)
(* One operating-system process runs train_model at a time; a process may  *)
(* end (normally, by an exception or by being killed) and a later process  *)
(* may be started on the same model folder, fresh or with config.preload   *)
(* naming a checkpoint file.                                               *)
(*                                                                         *)
(* Abstractions:                                                           *)
(*  - model parameters and the Adam moments are opaque blobs; a blob is    *)
(*    identified by the number of optimizer updates applied to it.         *)
(*  - the GradScaler scale is a power of two (init 2^16, growth 2.0,       *)
(*    backoff 0.5) or, once float32 underflows, 0.0: it is tracked by its  *)
(*    exponent, with one code below every exponent for 0.0.                *)
(*  - the learning rate held in the optimizer's param group is identified  *)
(*    by the schedule position that last wrote it.                         *)
(***************************************************************************)
EXTENDS Integers, Sequences, FiniteSets

\* ---------------------------------------------------------------- bounds
\* config["num_epochs"]
NumEpochs == 2
\* len(train_dataloader)
StepsPerEpoch == 2
\* number of train_model processes started on the same model folder
MaxRuns == 2
\* config["seq_len"] of a training run
MaxSeqLen == 2
\* largest max_len passed to greedy_decode when run_validation is called
\* on its own
MaxLen == 3
\* greedy_decode's loop has no bound of its own once the length is past
\* max_len; the model follows such a loop up to this length only
DecodeCap == 2
\* tokenizer_tgt.get_vocab_size(): ids 0..VocabSize-1
VocabSize == 4
\* largest validation set
MaxValSize == 3
\* largest num_examples passed to run_validation
MaxExamples == 3
\* GradScaler growth_interval (torch default 2000, scaled down so that the
\* scale grows within the bounded run)
GrowthInterval == 2
\* number of times the initial scale can be halved and stay positive: the
\* scale is a float32, so 2^16 reaches the smallest positive value after 165
\* halvings and 0.0 at the next one (scaled down so that the bounded run
\* gets there)
ScaleHalvings == 2

\* ------------------------------------------------------ program constants
\* special_tokens=["[UNK]", "[PAD]", "[SOS]", "[EOS]"]: ids in list order
sos_idx == 2
eos_idx == 3
NumSpecialTokens == 4
\* run_validation(..., num_examples=2)
DefaultNumExamples == 2
\* GradScaler(): init_scale = 2.**16, kept as its exponent
InitScaleExp == 16
\* config["preload"] = None
NoPreload == -1

Vocab == 0 .. (VocabSize - 1)
Epochs == 0 .. (NumEpochs - 1)
\* config["preload"] naming an epoch's weights file; the name NumEpochs
\* stands for a file that train_model never writes
PreloadNames == 0 .. NumEpochs

VARIABLES
  \* ---- environment and configuration
  cuda,          \* torch.cuda.is_available()
  seq_len,       \* config["seq_len"]
  val_size,      \* len(val_dataloader)
  has_writer,    \* the metrics sink passed to run_validation is not None
  preload,       \* config["preload"] of the running process
  disk,          \* weights files in config["model_folder"], by epoch name
  runs,          \* processes started so far
  \* ---- train_model
  pc,            \* position of the running process
  initial_epoch,
  epoch,
  global_step,
  batch_idx,     \* batches of the current epoch already processed
  model,         \* model parameters
  optimizer,     \* optimizer state_dict
  scheduler,     \* OneCycleLR: last_epoch, total_steps
  scaler,        \* GradScaler: enabled, scale exponent, growth tracker
  \* ---- run_validation
  num_examples,
  val_pos,       \* validation batches drawn from the iterator
  count,
  predicted,
  model_out,     \* what the last greedy_decode call returned
  val_step,      \* the global_step argument
  metrics,       \* scalars given to writer.add_scalar by run_validation
  \* ---- greedy_decode
  max_len,
  source,        \* the batch's encoder_input
  source_mask,   \* the batch's encoder_mask
  encoder_output,
  decoder_input,
  encode_calls,
  decode_calls,
  decode_log,    \* the arguments of this invocation's model.decode calls
  \* ---- history (never read by the program)
  lineage,       \* what an uninterrupted run would hold at this point
  saved_lineage, \* lineage recorded with each complete checkpoint
  saved_args,    \* the values handed to each completed torch.save
  last,          \* what the last step did
  events,        \* what the running process did in the current epoch
  proc,          \* what the running process did since it started
  epoch_start,   \* the model folder and global_step when the epoch began
  snap           \* the training state when run_validation was called

envVars == <<cuda, seq_len, val_size, has_writer, preload, disk, runs>>
trainVars == <<pc, initial_epoch, epoch, global_step, batch_idx, model,
               optimizer, scheduler, scaler>>
valVars == <<num_examples, val_pos, count, predicted, model_out, val_step,
             metrics>>
gdVars == <<max_len, source, source_mask, encoder_output, decoder_input,
            encode_calls, decode_calls, decode_log>>
histVars == <<lineage, saved_lineage, saved_args, last, events, proc,
              epoch_start, snap>>
vars == <<envVars, trainVars, valVars, gdVars, histVars>>

\* ------------------------------------------------------------ checkpoints
\* A weights file: absent, opened for writing but not completed, or holding
\* the pickled dict as its (key, value) items in insertion order.
AbsentFile == [status |-> "absent", data |-> <<>>]
PartialFile == [status |-> "partial", data |-> <<>>]

\* variant: the step counter is stored under another key
CheckpointDict_renamed(e, m, o, g) ==
  << <<"epoch", e>>,
     <<"model_state_dict", m>>,
     <<"optimizer_state_dict", o>>,
     <<"step", g>> >>

\* variant: the step counter is stored one step ahead
CheckpointDict_next_step(e, m, o, g) ==
  << <<"epoch", e>>,
     <<"model_state_dict", m>>,
     <<"optimizer_state_dict", o>>,
     <<"global_step", g + 1>> >>

\* the dict literal handed to torch.save
CheckpointDict(e, m, o, g) ==
  << <<"epoch", e>>,
     <<"model_state_dict", m>>,
     <<"optimizer_state_dict", o>>,
     <<"global_step", g>> >>

\* torch.save(obj, model_filename), once the file is completely written
torch_save(obj) == [status |-> "complete", data |-> obj]

HasKey(d, k) == \E i \in 1 .. Len(d) : d[i][1] = k

\* state[k] on the dict returned by torch.load
Get(d, k) == d[CHOOSE i \in 1 .. Len(d) : d[i][1] = k][2]

\* the keys train_model reads from the loaded state
KeysRead == {"model_state_dict", "epoch", "optimizer_state_dict", "global_step"}

\* torch.load(model_filename) and the four state[...] reads succeed
Loadable(file) ==
  /\ file.status = "complete"
  /\ \A k \in KeysRead : HasKey(file.data, k)

\* ------------------------------------------------- optimizer / scheduler
\* torch.optim.Adam(...) followed by OneCycleLR.__init__, which writes the
\* initial learning rate (schedule position 0) into the param group
FreshOptimizer == [step |-> 0, lr_pos |-> 0]

\* variant: the budget covers one epoch only
FreshScheduler_one_epoch == [last_epoch |-> 0, total_steps |-> StepsPerEpoch]

\* OneCycleLR(optimizer, steps_per_epoch=STEPS_PER_EPOCH, epochs=EPOCHS, ...)
FreshScheduler == [last_epoch |-> 0, total_steps |-> StepsPerEpoch * NumEpochs]

\* exponent of the smallest positive scale, and the code that stands for the
\* scale 0.0 (below every positive scale, so that the order of scales is the
\* order of their codes)
MinScaleExp == InitScaleExp - ScaleHalvings
ZeroScaleExp == MinScaleExp - 1

\* torch.cuda.amp.GradScaler(): disabled (with a warning) when CUDA is absent
FreshScaler(enabled) ==
  [enabled |-> enabled, scale_exp |-> InitScaleExp, growth_tracker |-> 0]

\* scaler.get_scale(), as the code of the scale: 1.0 when the scaler is
\* disabled
get_scale(sc) == IF sc.enabled THEN sc.scale_exp ELSE 0

\* scaler.step(optimizer) finds a non-finite gradient while unscaling: the
\* backward pass overflowed, or the scale is 0.0 (the gradients of a loss
\* scaled by 0.0 are multiplied by 1/0.0); a disabled scaler does not look
found_inf(sc, overflow) ==
  sc.enabled /\ (overflow \/ sc.scale_exp = ZeroScaleExp)

\* scaler.step(optimizer): optimizer.step() unless infs were found; a
\* disabled scaler calls optimizer.step() unconditionally
UpdateApplied(sc, overflow) == ~found_inf(sc, overflow)

\* scale * backoff_factor (0.5) in float32
backoff(exp) == IF exp <= MinScaleExp THEN ZeroScaleExp ELSE exp - 1

\* scale * growth_factor (2.0) in float32
growth(exp) == IF exp = ZeroScaleExp THEN ZeroScaleExp ELSE exp + 1

\* scaler.update(): backoff when infs were found, growth after
\* growth_interval consecutive clean steps; a no-op when disabled
scaler_update(sc, overflow) ==
  IF ~sc.enabled THEN sc
  ELSE IF found_inf(sc, overflow)
    THEN [sc EXCEPT !.scale_exp = backoff(@), !.growth_tracker = 0]
    ELSE IF sc.growth_tracker + 1 = GrowthInterval
      THEN [sc EXCEPT !.scale_exp = growth(@), !.growth_tracker = 0]
      ELSE [sc EXCEPT !.growth_tracker = @ + 1]

\* variant: the schedule is also skipped when the scale did not change
skip_lr_sched_ge(scale, sc) == scale >= get_scale(sc)

\* skip_lr_sched = (scale > scaler.get_scale())
skip_lr_sched(scale, sc) == scale > get_scale(sc)

\* scheduler.step(): last_epoch += 1
scheduler_step(sch) == [sch EXCEPT !.last_epoch = @ + 1]

\* OneCycleLR.get_lr raises ValueError once stepped past total_steps
SchedulerRaises(sch) == sch.last_epoch > sch.total_steps

\* --------------------------------------------------------------- history
NoLineage == [sched |-> 0, steps |-> 0]

NoArgs == [epoch |-> 0, model |-> 0, optimizer |-> [step |-> 0, lr_pos |-> 0],
           global_step |-> 0]

Did(op) ==
  [op |-> op, overflow |-> FALSE, found_inf |-> FALSE,
   scale_before |-> get_scale(scaler), sched_before |-> scheduler.last_epoch,
   gstep_before |-> global_step, model_before |-> model]

\* a process that has done nothing yet
NewProc(ok) ==
  [load_ok |-> ok, epochs |-> <<>>, saves |-> <<>>,
   batches |-> 0, found_infs |-> 0, applied |-> 0, batch_step |-> 0]

NoEpochStart(d) == [in_epoch |-> FALSE, disk |-> d, global_step |-> 0]

NoSnap == [taken |-> FALSE, model |-> 0, optimizer |-> [step |-> 0, lr_pos |-> 0],
           scale |-> 0, sched |-> 0, global_step |-> 0]

\* ------------------------------------------------------------------ Init
ValIdle ==
  /\ val_pos = 0
  /\ count = 0
  /\ predicted = <<>>
  /\ model_out = <<>>
  /\ metrics = <<>>

\* no batch and no encoder output yet
NoTensor == <<>>

GdIdle ==
  /\ source = NoTensor
  /\ source_mask = NoTensor
  /\ encoder_output = NoTensor
  /\ decoder_input = <<>>
  /\ encode_calls = 0
  /\ decode_calls = 0
  /\ decode_log = {}

TrainIdle ==
  /\ preload = NoPreload
  /\ disk = [e \in Epochs |-> AbsentFile]
  /\ runs = 0
  /\ initial_epoch = 0
  /\ epoch = 0
  /\ global_step = 0
  /\ batch_idx = 0
  /\ model = 0
  /\ optimizer = FreshOptimizer
  /\ scheduler = FreshScheduler
  /\ lineage = NoLineage
  /\ saved_lineage = [e \in Epochs |-> NoLineage]
  /\ saved_args = [e \in Epochs |-> NoArgs]
  /\ events = <<>>
  /\ proc = NewProc(TRUE)
  /\ epoch_start = NoEpochStart([e \in Epochs |-> AbsentFile])
  /\ snap = NoSnap
  /\ last = [op |-> "none", overflow |-> FALSE, found_inf |-> FALSE,
             scale_before |-> 0, sched_before |-> 0, gstep_before |-> 0,
             model_before |-> 0]

\* the configured seq_len: at least 2, as BilingualDataset adds [SOS] and
\* [EOS] to every sentence and pads to seq_len
SeqLens == {MaxSeqLen}

\* validation sets with fewer and with more examples than run_validation's
\* default num_examples
ValSizes == {DefaultNumExamples - 1, DefaultNumExamples + 1}

\* No process has run yet and the model folder is empty.
Init ==
  /\ cuda \in BOOLEAN
  /\ seq_len \in SeqLens
  /\ val_size \in ValSizes
  /\ has_writer = TRUE
  /\ pc = "idle"
  /\ scaler = FreshScaler(cuda)
  /\ max_len = seq_len
  /\ num_examples = DefaultNumExamples
  /\ val_step = 0
  /\ TrainIdle
  /\ ValIdle
  /\ GdIdle

\* the locals of run_validation and greedy_decode before their first use
ValReset ==
  /\ val_pos' = 0
  /\ count' = 0
  /\ predicted' = <<>>
  /\ model_out' = <<>>
  /\ metrics' = <<>>

GdReset ==
  /\ source' = NoTensor
  /\ source_mask' = NoTensor
  /\ encoder_output' = NoTensor
  /\ decoder_input' = <<>>
  /\ encode_calls' = 0
  /\ decode_calls' = 0
  /\ decode_log' = {}

\* ----------------------------------------------------------- train_model
\* variant: the stored epoch is run again
LoadedInitialEpoch_same(state) == Get(state, "epoch")

\* initial_epoch = state["epoch"] + 1
LoadedInitialEpoch(state) == Get(state, "epoch") + 1

\* variant: the step counter restarts on preload
LoadedGlobalStep_reset(state) == 0

\* global_step = state["global_step"]
LoadedGlobalStep(state) == Get(state, "global_step")

\* variant: the epoch's batch loop is left after its first batch
BatchesExhausted_early(i) == i >= 1

\* "for batch in batch_iterator" has no batch left
BatchesExhausted(i) == i = StepsPerEpoch

\* variant: a checkpoint that cannot be loaded is ignored
PreloadConfigured_if_loadable(p) ==
  p # NoPreload /\ p \in Epochs /\ Loadable(disk[p])

\* if config["preload"]:
PreloadConfigured(p) == p # NoPreload

\* Lines 244-294: build everything, then preload if configured.
Start(p) ==
  /\ pc \in {"idle", "done", "error", "killed"}
  /\ runs < MaxRuns
  /\ runs' = runs + 1
  /\ preload' = p
  /\ scheduler' = FreshScheduler
  /\ scaler' = FreshScaler(cuda)
  /\ batch_idx' = 0
  /\ events' = <<>>
  /\ last' = Did(IF p = NoPreload THEN "start" ELSE "preload")
  /\ proc' = NewProc(p = NoPreload \/ (p \in Epochs /\ Loadable(disk[p])))
  /\ epoch_start' = NoEpochStart(disk)
  /\ snap' = NoSnap
  /\ IF ~PreloadConfigured(p)
       THEN /\ model' = 0
            /\ optimizer' = FreshOptimizer
            /\ initial_epoch' = 0
            /\ global_step' = 0
            /\ epoch' = 0
            /\ lineage' = NoLineage
            /\ pc' = "epoch_head"
       ELSE IF p \in Epochs /\ Loadable(disk[p])
         THEN LET state == disk[p].data IN
              /\ model' = Get(state, "model_state_dict")
              /\ initial_epoch' = LoadedInitialEpoch(state)
              /\ optimizer' = Get(state, "optimizer_state_dict")
              /\ global_step' = LoadedGlobalStep(state)
              /\ epoch' = LoadedInitialEpoch(state)
              /\ lineage' = saved_lineage[p]
              /\ pc' = "epoch_head"
         ELSE \* torch.load raises: the process ends before the loop
              /\ model' = 0
              /\ optimizer' = FreshOptimizer
              /\ initial_epoch' = 0
              /\ global_step' = 0
              /\ epoch' = 0
              /\ lineage' = NoLineage
              /\ pc' = "error"
  \* a new process holds none of the previous one's locals
  /\ num_examples' = DefaultNumExamples
  /\ val_step' = 0
  /\ max_len' = seq_len
  /\ ValReset
  /\ GdReset
  /\ UNCHANGED <<cuda, seq_len, val_size, has_writer, disk, saved_lineage,
                 saved_args>>

\* variant: the loop runs one epoch more
EpochInRange_inclusive(e) == e <= NumEpochs

\* range(initial_epoch, config["num_epochs"]) yields e
EpochInRange(e) == e < NumEpochs

\* for epoch in range(initial_epoch, config["num_epochs"]): next epoch or end
EpochHead ==
  /\ pc = "epoch_head"
  /\ IF EpochInRange(epoch)
       THEN pc' = "batch"
       ELSE pc' = "done"
  /\ batch_idx' = 0
  /\ events' = <<>>
  /\ last' = Did("epoch_head")
  /\ IF EpochInRange(epoch)
       THEN /\ proc' = [proc EXCEPT !.epochs = Append(@, epoch)]
            /\ epoch_start' = [in_epoch |-> TRUE, disk |-> disk,
                               global_step |-> global_step]
       ELSE UNCHANGED <<proc, epoch_start>>
  /\ snap' = NoSnap
  /\ UNCHANGED <<envVars, initial_epoch, epoch, global_step, model, optimizer,
                 scheduler, scaler, valVars, gdVars, lineage, saved_lineage,
                 saved_args>>

\* One iteration of "for batch in batch_iterator" (lines 300-346).
TrainStep(overflow) ==
  /\ pc = "batch"
  /\ ~BatchesExhausted(batch_idx)
  /\ LET scale == get_scale(scaler)
         applied == UpdateApplied(scaler, overflow)
         sc2 == scaler_update(scaler, overflow)
         skip == skip_lr_sched(scale, sc2)
         sch2 == IF skip THEN scheduler ELSE scheduler_step(scheduler)
         raises == (~skip) /\ SchedulerRaises(sch2)
     IN
     /\ scaler' = sc2
     /\ scheduler' = sch2
     /\ model' = IF applied THEN model + 1 ELSE model
     /\ optimizer' =
          [step |-> IF applied THEN optimizer.step + 1 ELSE optimizer.step,
           lr_pos |-> IF skip \/ raises THEN optimizer.lr_pos ELSE sch2.last_epoch]
     /\ IF raises
          THEN /\ pc' = "error"
               /\ UNCHANGED <<global_step, batch_idx, lineage, events, proc>>
          ELSE /\ pc' = "batch"
               /\ events' = Append(events, "batch")
               /\ proc' = [proc EXCEPT
                             !.batches = @ + 1,
                             !.found_infs = IF found_inf(scaler, overflow)
                                              THEN @ + 1 ELSE @,
                             !.applied = IF applied THEN @ + 1 ELSE @,
                             !.batch_step = global_step + 1]
               /\ global_step' = global_step + 1
               /\ batch_idx' = batch_idx + 1
               /\ lineage' = [sched |-> IF skip THEN lineage.sched
                                                ELSE lineage.sched + 1,
                              steps |-> lineage.steps + 1]
     /\ last' = [Did("batch") EXCEPT !.overflow = overflow,
                                     !.found_inf = found_inf(scaler, overflow)]
  /\ UNCHANGED <<envVars, initial_epoch, epoch, valVars, gdVars, saved_lineage,
                 saved_args, epoch_start, snap>>

\* Lines 349-359 and 77-92: the batch iterator is exhausted, run_validation
\* is entered with the default num_examples and the current global_step.
CallValidation ==
  /\ pc = "batch"
  /\ BatchesExhausted(batch_idx)
  /\ pc' = "val_loop"
  /\ num_examples' = DefaultNumExamples
  /\ max_len' = seq_len
  /\ val_step' = global_step
  /\ ValReset
  /\ GdReset
  /\ events' = Append(events, "val_start")
  /\ last' = Did("call_validation")
  /\ snap' = [taken |-> TRUE, model |-> model, optimizer |-> optimizer,
              scale |-> get_scale(scaler), sched |-> scheduler.last_epoch,
              global_step |-> global_step]
  /\ UNCHANGED <<envVars, initial_epoch, epoch, global_step, batch_idx, model,
                 optimizer, scheduler, scaler, lineage, saved_lineage,
                 saved_args, proc, epoch_start>>

\* -------------------------------------------------------- run_validation
\* tokenizer_tgt.decode(ids): the text of the ids, special tokens skipped
IsWord(t) == t >= NumSpecialTokens

tokenizer_decode(ids) == SelectSeq(ids, IsWord)

\* batch["encoder_input"] and batch["encoder_mask"] of the i-th validation
\* batch
encoder_input(i) == <<"encoder_input", i>>

encoder_mask(i) == <<"encoder_mask", i>>

\* model.encode(source, source_mask): the tensor computed from its arguments
model_encode(src, mask) == <<"encoder_output", src, mask>>

\* "for batch in validation_ds" yields a batch: count += 1, then
\* greedy_decode is entered (lines 96-111, 30-36): one encode call, the
\* decoder input holds [SOS]. model_out is not assigned yet in this
\* iteration (the previous iteration's value is never read again).
ValNext ==
  /\ pc = "val_loop"
  /\ val_pos < val_size
  /\ val_pos' = val_pos + 1
  /\ count' = count + 1
  /\ source' = encoder_input(val_pos + 1)
  /\ source_mask' = encoder_mask(val_pos + 1)
  /\ encoder_output' = model_encode(encoder_input(val_pos + 1),
                                    encoder_mask(val_pos + 1))
  /\ encode_calls' = 1
  /\ decode_calls' = 0
  /\ decode_log' = {}
  /\ decoder_input' = <<sos_idx>>
  /\ model_out' = <<>>
  /\ pc' = "gd_loop"
  /\ last' = Did("val_next")
  /\ UNCHANGED <<envVars, initial_epoch, epoch, global_step, batch_idx, model,
                 optimizer, scheduler, scaler, num_examples, predicted,
                 val_step, metrics, max_len, lineage, saved_lineage,
                 saved_args, events, proc, epoch_start, snap>>

\* "for batch in validation_ds" is exhausted before count reached num_examples
ValExhausted ==
  /\ pc = "val_loop"
  /\ val_pos = val_size
  /\ pc' = "val_metrics"
  /\ last' = Did("val_exhausted")
  /\ UNCHANGED <<envVars, initial_epoch, epoch, global_step, batch_idx, model,
                 optimizer, scheduler, scaler, valVars, gdVars, lineage,
                 saved_lineage, saved_args, events, proc, epoch_start, snap>>

\* variant: the loop is left one example late
ReachedCount_gt(c, n) == c > n

\* if count == num_examples: break
ReachedCount(c, n) == c = n

\* Lines 62, 113-129: greedy_decode returns out (its frame is gone); collect
\* the texts and leave the loop when count == num_examples.
AfterDecode(out) ==
  /\ model_out' = out
  /\ decoder_input' = <<>>
  /\ predicted' = Append(predicted, tokenizer_decode(out))
  /\ pc' = IF ReachedCount(count, num_examples) THEN "val_metrics"
                                                 ELSE "val_loop"

\* ---------------------------------------------------------- greedy_decode
\* variant: the loop is left one token early
LengthReached_early(dec, ml) == Len(dec) = ml - 1

\* if decoder_input.size(1) == max_len: break
LengthReached(dec, ml) == Len(dec) = ml

\* variant: [EOS] does not end the loop
IsEos_never(tok) == FALSE

\* variant: the loop ends on [SOS] in place of [EOS]
IsEos_sos(tok) == tok = sos_idx

\* if next_word == eos_idx: break
IsEos(tok) == tok = eos_idx

\* Lines 38-39, 62: the length check matches, the loop ends and the
\* function returns.
GD_Break ==
  /\ pc = "gd_loop"
  /\ LengthReached(decoder_input, max_len)
  /\ AfterDecode(decoder_input)
  /\ last' = Did("gd_break")
  /\ UNCHANGED <<envVars, initial_epoch, epoch, global_step, batch_idx, model,
                 optimizer, scheduler, scaler, num_examples, val_pos, count,
                 val_step, metrics, max_len, source, source_mask,
                 encoder_output, encode_calls, decode_calls, decode_log,
                 lineage, saved_lineage, saved_args, events, proc,
                 epoch_start, snap>>

\* causal_mask(decoder_input.size(1))
causal_mask(size) == <<"causal_mask", size>>

\* variant: the target mask is passed in the source mask's place
decode_call_tgt_mask(enc, mask, dec) ==
  [encoder_output |-> enc, source_mask |-> causal_mask(Len(dec)),
   tgt |-> dec, tgt_mask |-> causal_mask(Len(dec))]

\* the arguments of
\* model.decode(encoder_output, source_mask, decoder_input, decoder_mask)
decode_call(enc, mask, dec) ==
  [encoder_output |-> enc, source_mask |-> mask,
   tgt |-> dec, tgt_mask |-> causal_mask(Len(dec))]

\* Lines 41-61: one model.decode call, the arg-max token tok is appended,
\* and the function returns at once when tok is [EOS].
GD_Step(tok) ==
  /\ pc = "gd_loop"
  /\ ~LengthReached(decoder_input, max_len)
  /\ Len(decoder_input) < max_len \/ Len(decoder_input) < DecodeCap
  /\ decode_calls' = decode_calls + 1
  /\ decode_log' = decode_log \cup
                     {decode_call(encoder_output, source_mask, decoder_input)}
  /\ IF IsEos(tok)
       THEN AfterDecode(Append(decoder_input, tok))
       ELSE /\ decoder_input' = Append(decoder_input, tok)
            /\ pc' = "gd_loop"
            /\ UNCHANGED <<model_out, predicted>>
  /\ last' = Did(IF IsEos(tok) THEN "gd_eos" ELSE "gd_step")
  /\ UNCHANGED <<envVars, initial_epoch, epoch, global_step, batch_idx, model,
                 optimizer, scheduler, scaler, num_examples, val_pos, count,
                 val_step, metrics, max_len, source, source_mask,
                 encoder_output, encode_calls, lineage, saved_lineage,
                 saved_args, events, proc, epoch_start, snap>>

\* variant: the BLEU score is not written
ValidationScalars_no_bleu(step) ==
  << <<"validation cer", step>>,
     <<"validation wer", step>> >>

\* the three scalars written when a writer is given (lines 131-149)
ValidationScalars(step) ==
  << <<"validation cer", step>>,
     <<"validation wer", step>>,
     <<"validation BLEU", step>> >>

\* Lines 131-149: metrics are emitted if a writer is given; run_validation
\* returns.
ValMetrics ==
  /\ pc = "val_metrics"
  /\ metrics' = IF has_writer THEN ValidationScalars(val_step) ELSE <<>>
  /\ pc' = "validated"
  /\ events' = Append(events, "val_end")
  /\ last' = Did("val_return")
  /\ UNCHANGED <<envVars, initial_epoch, epoch, global_step, batch_idx, model,
                 optimizer, scheduler, scaler, num_examples, val_pos, count,
                 predicted, model_out, val_step, gdVars, lineage,
                 saved_lineage, saved_args, proc, epoch_start, snap>>

\* Line 361: back in train_model, run_validation's locals are gone
AfterValidation ==
  /\ val_pos' = 0
  /\ count' = 0
  /\ predicted' = <<>>
  /\ model_out' = <<>>
  /\ GdReset

\* ------------------------------------------------------- checkpoint save
\* variant: every epoch is saved under the first epoch's name
model_filename_first(e) == 0

\* model_filename = get_weights_file_path(config, f"{epoch:02d}")
model_filename(e) == e

\* torch.save opens the epoch's weights file for writing (lines 362-363)
SaveBegin ==
  /\ pc = "validated"
  /\ disk' = [disk EXCEPT ![model_filename(epoch)] = PartialFile]
  /\ pc' = "saving"
  /\ events' = Append(events, "save_begin")
  /\ last' = Did("save_begin")
  /\ AfterValidation
  /\ UNCHANGED <<cuda, seq_len, val_size, has_writer, preload, runs,
                 initial_epoch, epoch, global_step, batch_idx, model,
                 optimizer, scheduler, scaler, num_examples, val_step, metrics,
                 max_len, lineage, saved_lineage, saved_args, proc,
                 epoch_start, snap>>

\* torch.save completes (lines 363-371); the for loop moves to the next epoch
SaveEnd ==
  /\ pc = "saving"
  /\ disk' = [disk EXCEPT
                ![model_filename(epoch)] =
                   torch_save(CheckpointDict(epoch, model, optimizer,
                                             global_step))]
  /\ proc' = [proc EXCEPT
                !.saves = Append(@, [file |-> model_filename(epoch),
                                     epoch |-> epoch,
                                     global_step |-> global_step,
                                     after_last_batch |-> proc.batch_step])]
  /\ epoch_start' = [epoch_start EXCEPT !.in_epoch = FALSE]
  /\ saved_lineage' = [saved_lineage EXCEPT ![epoch] = lineage]
  /\ saved_args' = [saved_args EXCEPT
                      ![epoch] = [epoch |-> epoch, model |-> model,
                                  optimizer |-> optimizer,
                                  global_step |-> global_step]]
  /\ epoch' = epoch + 1
  /\ pc' = "epoch_head"
  /\ events' = Append(events, "save_end")
  /\ last' = Did("save_end")
  /\ UNCHANGED <<cuda, seq_len, val_size, has_writer, preload, runs,
                 initial_epoch, global_step, batch_idx, model, optimizer,
                 scheduler, scaler, valVars, gdVars, lineage, snap>>

\* ------------------------------------------------------------- the process
Running ==
  pc \in {"epoch_head", "batch", "val_loop", "gd_loop", "val_metrics",
          "validated", "saving"}

\* The process is interrupted (killed): files already written stay, the
\* process's memory is gone (epoch is kept to tell which epoch was cut).
Kill ==
  /\ Running
  /\ pc' = "killed"
  /\ last' = [Did("kill") EXCEPT !.scale_before = 0, !.sched_before = 0,
                                 !.gstep_before = 0, !.model_before = 0]
  /\ proc' = NewProc(TRUE)
  /\ snap' = NoSnap
  /\ global_step' = 0
  /\ batch_idx' = 0
  /\ model' = 0
  /\ optimizer' = FreshOptimizer
  /\ scheduler' = FreshScheduler
  /\ scaler' = FreshScaler(cuda)
  /\ lineage' = NoLineage
  /\ events' = <<>>
  /\ val_step' = 0
  /\ ValReset
  /\ GdReset
  /\ UNCHANGED <<envVars, initial_epoch, epoch, num_examples, max_len,
                 saved_lineage, saved_args, epoch_start>>

\* arg-max outcomes tried in a training run's validation: [EOS], and one
\* token that is not [EOS]
RunTokens == {eos_idx, sos_idx}

Next ==
  \/ \E p \in {NoPreload} \cup PreloadNames : Start(p)
  \/ EpochHead
  \/ \E overflow \in BOOLEAN : TrainStep(overflow)
  \/ CallValidation
  \/ ValNext
  \/ ValExhausted
  \/ GD_Break
  \/ \E tok \in RunTokens : GD_Step(tok)
  \/ ValMetrics
  \/ SaveBegin
  \/ SaveEnd
  \/ Kill

Spec == Init /\ [][Next]_vars

\* ------------------------------------- run_validation called on its own
\* run_validation has been entered (lines 77-92) with any num_examples,
\* max_len, validation set, writer and global_step.
InitVal ==
  /\ cuda = FALSE
  /\ seq_len = MaxLen
  /\ val_size \in 0 .. MaxValSize
  /\ has_writer \in BOOLEAN
  /\ pc = "val_loop"
  /\ scaler = FreshScaler(cuda)
  /\ max_len \in 0 .. MaxLen
  /\ num_examples \in 0 .. MaxExamples
  /\ val_step \in 0 .. 1
  /\ TrainIdle
  /\ ValIdle
  /\ GdIdle

NextVal ==
  \/ ValNext
  \/ ValExhausted
  \/ GD_Break
  \/ \E tok \in Vocab : GD_Step(tok)
  \/ ValMetrics

SpecVal == InitVal /\ [][NextVal]_vars

\* ------------- run_validation called by train_model or called on its own
InitCalls == Init \/ InitVal

\* a state of a training run (runs counts the train_model processes)
InTraining == runs > 0 \/ pc = "idle"

NextCalls ==
  \/ InTraining /\ Next
  \/ ~InTraining /\ NextVal

SpecCalls == InitCalls /\ [][NextCalls]_vars

\* ================================================================ claims
Min(a, b) == IF a <= b THEN a ELSE b

IsPrefix(s, t) == Len(s) <= Len(t) /\ \A i \in 1 .. Len(s) : s[i] = t[i]

\* steps that are neither a training batch nor the start or end of a process
QuietOps ==
  {"epoch_head", "call_validation", "val_next", "val_exhausted", "gd_break",
   "gd_step", "gd_eos", "val_return", "save_begin", "save_end"}

\* the keys of the items a weights file holds
KeysWritten(file) == {file.data[i][1] : i \in 1 .. Len(file.data)}

\* the running process was preloaded from a weights file that loaded
Resumed == preload \in Epochs /\ pc \in {"epoch_head", "batch", "val_loop",
                                          "gd_loop", "val_metrics",
                                          "validated", "saving", "done"}

\* C1: in a training batch the scheduler's position counter is unchanged
\* when the scale read after scaler.update() is strictly less than the scale
\* read before scaler.step(optimizer), and advances by exactly 1 in every
\* other case (scale equal or larger).
C1_SchedulerSkipRule ==
  last.op = "batch" =>
    IF get_scale(scaler) < last.scale_before
      THEN scheduler.last_epoch = last.sched_before
      ELSE scheduler.last_epoch = last.sched_before + 1

\* a batch that lowered the scale and left an already advanced scheduler alone
C1_Witness ==
  /\ last.op = "batch"
  /\ get_scale(scaler) < last.scale_before
  /\ scheduler.last_epoch = last.sched_before
  /\ scheduler.last_epoch >= 1

\* C2: in a process resumed from a checkpoint, the scheduler's position at
\* every batch equals the position a run that never stopped would have at
\* that batch under the same per-batch overflow outcomes.
C2_ResumedScheduleMatches ==
  (Resumed /\ pc = "batch") => scheduler.last_epoch = lineage.sched

\* C3: global_step grows by exactly 1 per processed batch and changes at no
\* other step; after a preload it is the value stored at the end of the
\* checkpointed epoch, so at every point it equals the number of batches
\* processed along the run's lineage (no gap, repeat or reset).
C3_GlobalStepPerBatch ==
  /\ global_step = lineage.steps
  /\ (last.op = "batch" /\ pc # "error") => global_step = last.gstep_before + 1
  /\ last.op \in QuietOps => global_step = last.gstep_before
  /\ (last.op = "preload" /\ Resumed) =>
       global_step = saved_args[preload].global_step

\* the first batch of a resumed process, continuing a non-zero global_step
C3_Witness ==
  /\ Resumed
  /\ last.op = "batch"
  /\ last.gstep_before = saved_args[preload].global_step
  /\ global_step = StepsPerEpoch + 1

\* C4: with preload configured and a checkpoint holding epoch e and
\* global_step g, training starts with initial_epoch = e + 1 and
\* global_step = g, and the first epoch executed is e + 1.
C4_PreloadStartsAtNextEpoch ==
  (Resumed /\ Loadable(disk[preload])) =>
    LET e == Get(disk[preload].data, "epoch")
        g == Get(disk[preload].data, "global_step")
    IN /\ initial_epoch = e + 1
       /\ last.op = "preload" => (global_step = g /\ epoch = e + 1)
       /\ (pc = "batch" /\ global_step = g) => epoch = e + 1
       /\ (last.op = "batch" /\ last.gstep_before = g) => epoch = e + 1

\* the first epoch of a process resumed from a checkpoint with g > 0 begins
C4_Witness ==
  /\ Resumed
  /\ last.op = "epoch_head"
  /\ pc = "batch"
  /\ epoch = Get(disk[preload].data, "epoch") + 1
  /\ global_step = Get(disk[preload].data, "global_step")
  /\ global_step > 0

\* C5 as stated: for every max_len the sequence greedy_decode returns starts
\* with [SOS] and has a length between 2 and max_len inclusive.
C5_Original ==
  model_out # <<>> =>
    /\ model_out[1] = sos_idx
    /\ Len(model_out) >= 2
    /\ Len(model_out) <= max_len

\* C5 amended: for every max_len >= 2 the sequence greedy_decode returns
\* starts with [SOS] and has a length between 2 and max_len inclusive.
C5_Amended ==
  (max_len >= 2 /\ model_out # <<>>) =>
    /\ model_out[1] = sos_idx
    /\ Len(model_out) >= 2
    /\ Len(model_out) <= max_len

\* a full-length output and no [EOS] in it
C5_Witness ==
  /\ max_len = MaxLen
  /\ Len(model_out) = MaxLen
  /\ model_out[1] = sos_idx
  /\ \A i \in 1 .. Len(model_out) : model_out[i] # eos_idx

\* C6: when the token selected in a step is [EOS] it is appended and
\* greedy_decode returns in that same step: the loop never runs with an
\* [EOS] among the generated tokens, the returned sequence ends with that
\* [EOS] after exactly one decode call per generated token, and a model
\* that predicts [EOS] right after [SOS] yields exactly [SOS, EOS].
C6_StopsAtEos ==
  /\ pc = "gd_loop" =>
       \A i \in 2 .. Len(decoder_input) : decoder_input[i] # eos_idx
  /\ last.op = "gd_eos" =>
       /\ pc # "gd_loop"
       /\ model_out[Len(model_out)] = eos_idx
       /\ \A i \in 2 .. (Len(model_out) - 1) : model_out[i] # eos_idx
       /\ decode_calls = Len(model_out) - 1
  /\ (Len(model_out) >= 2 /\ model_out[2] = eos_idx) =>
       model_out = <<sos_idx, eos_idx>>

\* [EOS] right after [SOS] with room for more tokens
C6_Witness ==
  /\ last.op = "gd_eos"
  /\ max_len = MaxLen
  /\ model_out = <<sos_idx, eos_idx>>
  /\ decode_calls = 1

\* C7 as stated: for every max_len greedy_decode makes at most max_len - 1
\* model.decode calls (none when max_len < 1) and then returns.
C7_BoundedDecodeCalls ==
  decode_calls <= (IF max_len >= 1 THEN max_len - 1 ELSE 0)

\* C8: a weights file holds exactly the keys that preload reads, with the
\* values that were handed to torch.save, and a preload yields the same
\* epoch, global_step, model state and optimizer state.
C8_RoundTrip ==
  /\ \A e \in Epochs :
       disk[e].status = "complete" =>
         /\ KeysWritten(disk[e]) = KeysRead
         /\ Get(disk[e].data, "epoch") = saved_args[e].epoch
         /\ Get(disk[e].data, "global_step") = saved_args[e].global_step
         /\ Get(disk[e].data, "model_state_dict") = saved_args[e].model
         /\ Get(disk[e].data, "optimizer_state_dict") = saved_args[e].optimizer
  /\ (last.op = "preload" /\ Resumed) =>
       /\ initial_epoch = saved_args[preload].epoch + 1
       /\ global_step = saved_args[preload].global_step
       /\ model = saved_args[preload].model
       /\ optimizer = saved_args[preload].optimizer

\* a preload of a checkpoint written after applied updates
C8_Witness ==
  /\ last.op = "preload"
  /\ Resumed
  /\ model >= 1
  /\ optimizer.step >= 1
  /\ global_step >= 1

\* C9: with num_examples = n >= 1 run_validation decodes exactly n examples
\* and stops even when the set holds more; when it holds fewer, every
\* example is decoded once.
C9_ExactCount ==
  num_examples >= 1 =>
    /\ count <= num_examples
    /\ val_pos = count
    /\ pc = "val_loop" => (count < num_examples /\ Len(predicted) = count)
    /\ pc \in {"val_metrics", "validated"} =>
         /\ count = Min(num_examples, val_size)
         /\ Len(predicted) = count

\* two examples decoded out of a larger set
C9_Witness ==
  /\ pc = "validated"
  /\ num_examples = DefaultNumExamples
  /\ val_size > num_examples
  /\ count = DefaultNumExamples
  /\ Len(predicted) = DefaultNumExamples

\* the order of an epoch's events
EpochOrder ==
  [i \in 1 .. StepsPerEpoch |-> "batch"]
    \o <<"val_start", "val_end", "save_begin", "save_end">>

\* C10: in every epoch all training batches come first, then one validation
\* run, then one checkpoint save: validation never starts with a batch left,
\* no batch runs between the start of validation and the end of the save,
\* and the save never starts before validation has returned.
C10_EpochOrder ==
  /\ IsPrefix(events, EpochOrder)
  /\ last.op = "save_end" => events = EpochOrder

\* an epoch completed in that order
C10_Witness ==
  /\ last.op = "save_end"
  /\ events = EpochOrder
  /\ disk[epoch - 1].status = "complete"

\* the epochs a, a+1, ..., b-1 in ascending order
EpochRange(a, b) == [i \in 1 .. (b - a) |-> a + i - 1]

\* the process is inside an epoch (between the epoch's start and its save)
InEpoch == pc \in {"batch", "val_loop", "gd_loop", "val_metrics", "validated",
                   "saving"}

\* C11: a process executes the epochs initial_epoch, ..., num_epochs - 1 in
\* ascending order and each once, every epoch with all its batches, and
\* writes one checkpoint per executed epoch, under that epoch's name, holding
\* that epoch's number and the global_step reached after its last batch;
\* with initial_epoch >= num_epochs it processes no batch and writes no
\* checkpoint.
C11_EpochsAndCheckpoints ==
  /\ (Running \/ pc = "done") =>
       /\ proc.epochs =
            EpochRange(initial_epoch, IF InEpoch THEN epoch + 1 ELSE epoch)
       /\ \A i \in 1 .. Len(proc.epochs) : proc.epochs[i] < NumEpochs
       /\ Len(proc.saves) = epoch - initial_epoch
       /\ \A i \in 1 .. Len(proc.saves) :
            /\ proc.saves[i].file = proc.epochs[i]
            /\ proc.saves[i].epoch = proc.epochs[i]
            /\ proc.saves[i].global_step = proc.saves[i].after_last_batch
       /\ proc.batches = StepsPerEpoch * Len(proc.saves)
                           + (IF InEpoch THEN batch_idx ELSE 0)
  /\ pc = "done" =>
       /\ proc.epochs = EpochRange(initial_epoch, NumEpochs)
       /\ Len(proc.saves) = Len(proc.epochs)
       /\ \A i \in 1 .. Len(proc.saves) :
            /\ disk[proc.saves[i].file].status = "complete"
            /\ Get(disk[proc.saves[i].file].data, "epoch") = proc.epochs[i]
            /\ Get(disk[proc.saves[i].file].data, "global_step")
                 = proc.saves[i].after_last_batch
  /\ (pc = "done" /\ initial_epoch >= NumEpochs) =>
       /\ proc.epochs = <<>>
       /\ proc.batches = 0
       /\ proc.saves = <<>>

\* a resumed process that ran the epochs left and saved each of them
C11_Witness ==
  /\ pc = "done"
  /\ Resumed
  /\ initial_epoch = 1
  /\ proc.epochs = EpochRange(1, NumEpochs)
  /\ Len(proc.saves) = NumEpochs - 1
  /\ proc.batches = StepsPerEpoch * (NumEpochs - 1)

\* C12 as stated: a batch whose step finds non-finite gradients leaves the
\* model parameters unchanged, lowers the scale, does not advance the
\* scheduler, raises no error, increments global_step by 1 and lets the
\* loop continue.
C12_OverflowRecovered ==
  (last.op = "batch" /\ last.found_inf) =>
    /\ model = last.model_before
    /\ get_scale(scaler) < last.scale_before
    /\ scheduler.last_epoch = last.sched_before
    /\ pc = "batch"
    /\ global_step = last.gstep_before + 1

\* a process was interrupted inside epoch e >= 1: after the epoch began and
\* before its save completed
KilledInEpoch == pc = "killed" /\ epoch_start.in_epoch /\ epoch >= 1

\* C13: when a process is interrupted inside epoch e, the weights file of
\* epoch e-1 is the complete file it was when epoch e began and holds
\* epoch = e-1 and the global_step reached at the end of epoch e-1, so a
\* preload of it starts at epoch e; no complete weights file differs from
\* what it was when epoch e began (nothing of epoch e is recorded).
C13_LastCheckpointSurvives ==
  KilledInEpoch =>
    LET prev == disk[model_filename(epoch - 1)] IN
    /\ prev = epoch_start.disk[model_filename(epoch - 1)]
    /\ Loadable(prev)
    /\ Get(prev.data, "epoch") = epoch - 1
    /\ Get(prev.data, "global_step") = epoch_start.global_step
    /\ LoadedInitialEpoch(prev.data) = epoch
    /\ LoadedGlobalStep(prev.data) = epoch_start.global_step
    /\ \A f \in Epochs :
         disk[f].status = "complete" => disk[f] = epoch_start.disk[f]

\* interrupted while the save of epoch 1 was under way, after batches of
\* epoch 1 had been processed
C13_Witness ==
  /\ KilledInEpoch
  /\ epoch = 1
  /\ disk[1].status = "partial"
  /\ disk[0].status = "complete"
  /\ Get(disk[0].data, "global_step") = StepsPerEpoch

\* the running process was given a preload whose checkpoint did not load
PreloadFailed == preload # NoPreload /\ ~proc.load_ok

\* C14: when preload is configured and the checkpoint cannot be loaded
\* (missing or incomplete), the process ends with an error at startup: it
\* does not go on from a fresh initialization, it starts no epoch,
\* processes no batch and writes no checkpoint.
C14_FailedPreloadAborts ==
  PreloadFailed =>
    /\ pc = "error"
    /\ last.op = "preload"
    /\ proc.epochs = <<>>
    /\ proc.batches = 0
    /\ proc.saves = <<>>
    /\ events = <<>>

\* a preload of a weights file whose save was interrupted
C14_Witness ==
  /\ PreloadFailed
  /\ pc = "error"
  /\ preload \in Epochs
  /\ disk[preload].status = "partial"

\* greedy_decode has been entered for the current validation batch
InGreedyDecode == encode_calls >= 1 \/ decode_calls >= 1 \/ pc = "gd_loop"

\* C15: in one greedy_decode invocation model.encode is called exactly once,
\* before any decode step, on the batch's input and mask, and every
\* model.decode call of the invocation is given that encoder output and the
\* batch's source mask.
C15_EncodeOnce ==
  InGreedyDecode =>
    /\ encode_calls = 1
    /\ encoder_output = model_encode(encoder_input(val_pos),
                                     encoder_mask(val_pos))
    /\ source_mask = encoder_mask(val_pos)
    /\ Cardinality(decode_log) = decode_calls
    /\ \A c \in decode_log :
         /\ c.encoder_output = encoder_output
         /\ c.source_mask = source_mask

\* two decode steps on the second validation batch
C15_Witness ==
  /\ val_pos = 2
  /\ encode_calls = 1
  /\ decode_calls = 2
  /\ Cardinality(decode_log) = 2
  /\ \A c \in decode_log : c.source_mask = encoder_mask(2)

\* C16: run_validation emits nothing before its examples are processed;
\* when it returns (without an error) it has emitted nothing if no writer was
\* given, and otherwise exactly the three scalars "validation cer",
\* "validation wer" and "validation BLEU", each tagged with the global_step
\* argument, which in a training run is the global_step left by the epoch's
\* last batch.
C16_ValidationMetrics ==
  /\ pc \in {"val_loop", "gd_loop", "val_metrics"} => metrics = <<>>
  /\ last.op = "val_return" =>
       /\ pc = "validated"
       /\ Len(predicted) = count
       /\ ~has_writer => metrics = <<>>
       /\ has_writer =>
            /\ Len(metrics) = 3
            /\ metrics[1][1] = "validation cer"
            /\ metrics[2][1] = "validation wer"
            /\ metrics[3][1] = "validation BLEU"
            /\ \A i \in 1 .. 3 : metrics[i][2] = val_step
       /\ InTraining =>
            /\ has_writer
            /\ val_step = global_step
            /\ val_step = proc.batch_step

\* run_validation returned without a writer after decoding an example
C16_Witness ==
  /\ last.op = "val_return"
  /\ pc = "validated"
  /\ ~has_writer
  /\ count >= 1
  /\ metrics = <<>>

\* a process started at epoch 0 (no preload) that has not been interrupted
FreshRun == runs > 0 /\ preload = NoPreload /\ (Running \/ pc = "done")

\* C17 as stated: in a run started at epoch 0 the scheduler's position
\* equals the number of batches whose optimizer update was applied, which is
\* global_step minus the number of batches whose update was discarded
\* because non-finite gradients were found; a batch advances the scheduler
\* if and only if its update was applied.
C17_SchedulerTracksApplied ==
  FreshRun =>
    /\ scheduler.last_epoch = proc.applied
    /\ scheduler.last_epoch = global_step - proc.found_infs
    /\ last.op = "batch" =>
         ((scheduler.last_epoch = last.sched_before + 1)
            <=> (model # last.model_before))

\* C18: inside greedy_decode the sequence holds one token more than the
\* number of model.decode calls made; in the returned sequence [EOS] is at no
\* position but the last, and a returned sequence that does not end with
\* [EOS] (the model never selected it) has length exactly max_len and no
\* [EOS] in it.
C18_EosOnlyLast ==
  /\ pc = "gd_loop" => Len(decoder_input) = decode_calls + 1
  /\ model_out # <<>> =>
       /\ Len(model_out) = decode_calls + 1
       /\ \A i \in 1 .. (Len(model_out) - 1) : model_out[i] # eos_idx
       /\ model_out[Len(model_out)] # eos_idx =>
            Len(model_out) = max_len

\* the length check ended a decode that never selected [EOS]
C18_Witness ==
  /\ last.op = "gd_break"
  /\ max_len = MaxLen
  /\ decode_calls = MaxLen - 1
  /\ Len(model_out) = MaxLen
  /\ \A i \in 1 .. Len(model_out) : model_out[i] # eos_idx

\* C19: the scheduler's total step budget is steps_per_epoch * num_epochs
\* from its construction on and never changes; in every process, fresh or
\* resumed, the scheduler is advanced at most once per processed batch and
\* never more often than the budget allows, so scheduler.step() never raises.
C19_SchedulerBudget ==
  /\ scheduler.total_steps = StepsPerEpoch * NumEpochs
  /\ scheduler.last_epoch <= scheduler.total_steps
  /\ ~(pc = "error" /\ last.op = "batch")
  /\ (Running \/ pc = "done") => scheduler.last_epoch <= proc.batches

\* a run that used the whole budget
C19_Witness ==
  /\ pc = "done"
  /\ preload = NoPreload
  /\ proc.batches = StepsPerEpoch * NumEpochs
  /\ scheduler.last_epoch = scheduler.total_steps

\* run_validation has been called in this epoch and the epoch's save has not
\* completed
ValidationCalled ==
  snap.taken /\ pc \in {"val_loop", "gd_loop", "val_metrics", "validated",
                         "saving"}

\* C20: from the call of run_validation to the end of the epoch's save the
\* model parameters, the optimizer state, the scaler's scale, the
\* scheduler's position and global_step are what they were when the epoch's
\* last batch ended, and the checkpoint written after validation holds that
\* model state, optimizer state and global_step.
C20_ValidationFrame ==
  /\ ValidationCalled =>
       /\ model = snap.model
       /\ optimizer = snap.optimizer
       /\ get_scale(scaler) = snap.scale
       /\ scheduler.last_epoch = snap.sched
       /\ global_step = snap.global_step
       /\ snap.global_step = proc.batch_step
       /\ snap.model = last.model_before
  /\ last.op = "save_end" =>
       LET state == disk[model_filename(epoch - 1)].data IN
       /\ snap.taken
       /\ Get(state, "model_state_dict") = snap.model
       /\ Get(state, "optimizer_state_dict") = snap.optimizer
       /\ Get(state, "global_step") = snap.global_step
       /\ model = snap.model
       /\ optimizer = snap.optimizer
       /\ get_scale(scaler) = snap.scale
       /\ scheduler.last_epoch = snap.sched
       /\ global_step = snap.global_step

\* a checkpoint written after a validation run that decoded examples and
\* emitted its metrics, in an epoch whose batches applied updates
C20_Witness ==
  /\ last.op = "save_end"
  /\ snap.taken
  /\ snap.model >= 1
  /\ Len(metrics) = 3
  /\ Get(disk[model_filename(epoch - 1)].data, "model_state_dict") = snap.model

====
